---- MODULE Spec2Model ----
(***************************************************************************)
(* Model of the Gemini Image Studio front end (src/App.tsx and             *)
(* src/services/geminiService.ts): the App component's state, its two      *)
(* handlers handleImageSelected and processImage, the FileReader callbacks *)
(* they register, and the imageTransformations pipeline, one action per    *)
(* handler or await resumption.                                            *)
(*                                                                         *)
(* Strings built by template literals are sequences of tokens, so that     *)
(* `data:${mime};base64,${payload}` and String.split(',') are computed     *)
(* and not assumed.  The empty string '' is the empty sequence.            *)
(***************************************************************************)
EXTENDS Integers, Sequences, FiniteSets, TLC

VARIABLES
    originalFile,           \* useState<File | null>            App.tsx:11
    originalImagePreview,   \* useState<string | null>          App.tsx:12
    generatedImages,        \* useState<GeneratedImage[]>       App.tsx:13
    isLoading,              \* useState<boolean>                App.tsx:14
    error,                  \* useState<string | null>          App.tsx:15
    currentProcessingStep,  \* useState<string>                 App.tsx:16
    apiKey,                 \* process.env.API_KEY is set       geminiService.ts:12
    previewReads,           \* FileReaders of handleImageSelected still reading
    runs,                   \* one record per processImage call that created a reader
    uncaught,               \* errors no handler caught (uncaught exception, unhandled rejection)
    nSelect,                \* number of handleImageSelected calls so far
    nRuns                   \* number of processImage calls that created a reader so far

vars == <<originalFile, originalImagePreview, generatedImages, isLoading, error,
          currentProcessingStep, apiKey, previewReads, runs, uncaught, nSelect, nRuns>>

----------------------------------------------------------------------------
(* Bounds of the exploration *)

MaxUserActions == 3  \* files selected plus runs started by the user
NumOutputs == 2      \* distinct payloads the edit service may answer with

----------------------------------------------------------------------------
(* Values *)

None == <<"(null)">>    \* null where a string is expected

\* null where a File is expected
NoFile == [name |-> "(null)", type |-> <<>>, data |-> <<>>]

EmptyString == <<>> \* ''

PayloadNames == <<"OUT1", "OUT2", "OUT3", "OUT4">>

\* The base64 payloads the edit service may return: image data, never ''
Outputs == {<<PayloadNames[n]>> : n \in 1..NumOutputs}

FirstOutput == <<PayloadNames[1]>>

\* The files the user can pick: File.type and the base64 of the content.
Files ==
    { [name |-> "photo.jpg", type |-> <<"image/jpeg">>, data |-> <<"JPEGDATA">>],
      [name |-> "sketch.png", type |-> <<"image/png">>, data |-> <<"PNGDATA">>] }

ImagePng == <<"image/png">>

\* `data:${mimeType};base64,${payload}`
DataUrl(mimeType, payload) == <<"data:">> \o mimeType \o <<";base64", ",">> \o payload

\* FileReader.readAsDataURL(file): reader.result once the read succeeded
ReadAsDataURL(file) == DataUrl(file.type, file.data)

\* String.prototype.split(sep): the pieces between the separators
RECURSIVE Split(_, _)
Split(s, sep) ==
    IF \A k \in 1..Len(s) : s[k] # sep
    THEN <<s>>
    ELSE LET k == CHOOSE j \in 1..Len(s) :
                      s[j] = sep /\ \A m \in 1..(j - 1) : s[m] # sep
         IN  <<SubSeq(s, 1, k - 1)>> \o Split(SubSeq(s, k + 1, Len(s)), sep)

\* (reader.result as string).split(',')[1]
Base64Of(result) == Split(result, ",")[2]

----------------------------------------------------------------------------
(* The step table of imageTransformations; steps[i + 1] is the code's steps[i] *)

steps == <<
    [name |-> <<"Green Screen Background">>,
     description |-> <<"Original image with background removed and replaced with a green screen.">>,
     prompt |-> <<"Remove the background from this image and replace it with a solid, bright green screen (hex #00FF00). Ensure the subject is clearly visible.">>,
     isTposeStep |-> FALSE],
    [name |-> <<"Front View (Green Screen)">>,
     description |-> <<"A front view of the subject with a green screen background.">>,
     prompt |-> <<"Generate a clear front view of the person or caricature in this image. The background must be a solid, bright green screen (hex #00FF00). Do not change the pose from the original subject, just the camera angle.">>,
     isTposeStep |-> FALSE],
    [name |-> <<"Side View (Green Screen)">>,
     description |-> <<"A side view of the subject with a green screen background.">>,
     prompt |-> <<"Generate a clear side view of the person or caricature in this image. The background must be a solid, bright green screen (hex #00FF00). Do not change the pose from the original subject, just the camera angle.">>,
     isTposeStep |-> FALSE],
    [name |-> <<"Back View (Green Screen)">>,
     description |-> <<"A back view of the subject with a green screen background.">>,
     prompt |-> <<"Generate a clear back view of the person or caricature in this image. The background must be a solid, bright green screen (hex #00FF00). Do not change the pose from the original subject, just the camera angle.">>,
     isTposeStep |-> FALSE],
    [name |-> <<"T-Pose Front View (Green Screen)">>,
     description |-> <<"The subject in a T-pose, front view, with a green screen background.">>,
     prompt |-> <<"Transform the person or caricature in this image into a standard T-pose (arms outstretched horizontally, palms down, legs together), facing directly front. The background must be a solid, bright green screen (hex #00FF00). Remove any weapons or accessories the subject might be holding.">>,
     isTposeStep |-> TRUE],
    [name |-> <<"T-Pose Side View (Green Screen)">>,
     description |-> <<"The subject in a T-pose, side view, with a green screen background.">>,
     prompt |-> <<"Transform the person or caricature in this image into a standard T-pose (arms outstretched horizontally, palms down, legs together), facing directly side. The background must be a solid, bright green screen (hex #00FF00). Remove any weapons or accessories the subject might be holding.">>,
     isTposeStep |-> TRUE],
    [name |-> <<"T-Pose Back View (Green Screen)">>,
     description |-> <<"The subject in a T-pose, back view, with a green screen background.">>,
     prompt |-> <<"Transform the person or caricature in this image into a standard T-pose (arms outstretched horizontally, palms down, legs together), facing directly back. The background must be a solid, bright green screen (hex #00FF00). Remove any weapons or accessories the subject might be holding.">>,
     isTposeStep |-> TRUE] >>

\* steps.length
StepsLength == Len(steps)

\* setCurrentProcessingStep's argument before the request of step i
StepLabel(i) ==
    IF i = 0
    THEN <<"Removing background and applying green screen...">>
    ELSE <<"Generating ">> \o steps[i + 1].name \o <<"...">>

\* uuidv4(): an id no other entry has; the entry of step k of the run with
\* number id gets <<id, k>>
Uuidv4(id, k) == <<id, k>>

----------------------------------------------------------------------------
(* Messages *)

NoImageMessage == <<"Please upload an image first.">>

ApiKeyMessage == <<"API_KEY is not set. Please ensure it's configured.">>

ReadFailedMessage == <<"Failed to read the image file.">>

\* reader.result is null after a failed read: null.split throws a TypeError
NullSplitMessage == <<"TypeError: Cannot read properties of null (reading 'split')">>

NoImagePartMessage == <<"No image found in the Gemini API response.">>

TransportMessage == <<"fetch failed">>

\* What can go wrong inside editImage's try block: generateContent rejects,
\* or the response holds no image part
EditCauses == {TransportMessage, NoImagePartMessage}

\* `Failed to edit image: ${error.message}`
EditFailedMessage(cause) == <<"Failed to edit image: ">> \o cause

\* `Failed to process image: ${err.message}`
ProcessFailedMessage(cause) == <<"Failed to process image: ">> \o cause

----------------------------------------------------------------------------
(* The edit client, src/services/geminiService.ts *)

Pending == <<"(pending)">>      \* the promise of generateContent is not settled

Rejected == <<"(rejected)">>    \* editImage threw

\* getGeminiClient without its check of the key
GetGeminiClientNeverThrows == FALSE

\* getGeminiClient: throws unless process.env.API_KEY is set
GetGeminiClientThrows == ~apiKey

\* The request editImage sends: imagePart and textPart of generateContent
EditRequest(step, base64Image, mimeType, prompt) ==
    [step |-> step, data |-> base64Image, mimeType |-> mimeType,
     prompt |-> prompt, result |-> Pending]

\* run after it called editImage(base64Image, mimeType, steps[i].prompt):
\* the request is out, or getGeminiClient threw and the run is over
EditImage(run, i, base64Image, mimeType) ==
    IF GetGeminiClientThrows
    THEN [run EXCEPT !.pc = "failed", !.i = i, !.failure = ApiKeyMessage]
    ELSE [run EXCEPT !.pc = "awaiting", !.i = i,
                     !.calls = Append(@, EditRequest(i, base64Image, mimeType,
                                                     steps[i + 1].prompt))]

\* What escapes when editImage is called: the error of getGeminiClient, which
\* rejects imageTransformations and the async onloadend that nothing awaits
EditImageEscapes == IF GetGeminiClientThrows THEN {ApiKeyMessage} ELSE {}

----------------------------------------------------------------------------
(* imageTransformations, src/App.tsx:18-115 *)

GeneratedImage(id, name, description, src) ==
    [id |-> id, name |-> name, description |-> description, src |-> src]

\* A T-pose step takes the chain cursor like any other step
InputIsAlwaysCursor(run, i) == run.currentBase64

\* A string or null taken as a condition: null and '' count as false
Truthy(s) == s # None /\ s # EmptyString

\* inputImageForStep of loop step i (App.tsx:94-97)
InputImageForStep(run, i) ==
    IF steps[i + 1].isTposeStep /\ Truthy(run.greenScreenBaseForTpose)
    THEN run.greenScreenBaseForTpose
    ELSE run.currentBase64

\* Every step, T-pose or not, moves the chain cursor
CursorAlwaysChained(run, i, editedImageBase64) == editedImageBase64

\* currentBase64 after loop step i returned editedImageBase64 (App.tsx:109-111)
ChainCursor(run, i, editedImageBase64) ==
    IF ~steps[i + 1].isTposeStep THEN editedImageBase64 ELSE run.currentBase64

\* The MIME type in the src of the entry of step i (App.tsx:82 and 106)
SrcMimeType(run, i) == IF i = 0 THEN run.mimeType ELSE run.currentMimeType

\* The entry that run r appends when step i returned payload
StepEntry(r, i, payload) ==
    GeneratedImage(Uuidv4(runs[r].id, i), steps[i + 1].name, steps[i + 1].description,
                   DataUrl(SrcMimeType(runs[r], i), payload))

\* The loop stops one step early
LoopStopsEarly(i) == i < StepsLength - 1

\* The loop condition i < steps.length
LoopContinues(i) == i < StepsLength

\* Step 0 leaves currentMimeType the MIME type of the upload
AfterStepKeepsMimeType(run, i, payload) ==
    LET logged == [run EXCEPT !.calls[Len(run.calls)].result = payload]
    IN  IF i = 0
        THEN [logged EXCEPT !.greenScreenBaseForTpose = payload,
                            !.currentBase64 = payload]
        ELSE [logged EXCEPT !.currentBase64 = ChainCursor(run, i, payload)]

\* The locals of run after step i returned payload (App.tsx:85-87 and 109-111)
AfterStep(run, i, payload) ==
    LET logged == [run EXCEPT !.calls[Len(run.calls)].result = payload]
    IN  IF i = 0
        THEN [logged EXCEPT !.greenScreenBaseForTpose = payload,
                            !.currentBase64 = payload,
                            !.currentMimeType = ImagePng]
        ELSE [logged EXCEPT !.currentBase64 = ChainCursor(run, i, payload)]

----------------------------------------------------------------------------
(* Initial state: the useState initial values, nothing selected, no reader *)

Init ==
    /\ originalFile = NoFile
    /\ originalImagePreview = None
    /\ generatedImages = <<>>
    /\ isLoading = FALSE
    /\ error = None
    /\ currentProcessingStep = EmptyString
    /\ apiKey \in BOOLEAN
    /\ previewReads = {}
    /\ runs = <<>>
    /\ uncaught = {}
    /\ nSelect = 0
    /\ nRuns = 0

----------------------------------------------------------------------------
(* handleImageSelected, src/App.tsx:117-126.  ImageUploader calls it from   *)
(* the file input (disabled while isLoading) and from the drop zone (never  *)
(* disabled).                                                               *)

\* The new file is recorded but the results and the error of the last run stay
handleImageSelectedKeepsResults(file) ==
    /\ nSelect + nRuns < MaxUserActions
    /\ nSelect' = nSelect + 1
    /\ originalFile' = file
    /\ previewReads' = previewReads \cup {[sel |-> nSelect + 1, file |-> file]}
    /\ UNCHANGED <<originalImagePreview, generatedImages, isLoading, error,
                   currentProcessingStep, apiKey, runs, uncaught, nRuns>>

handleImageSelected(file) ==
    /\ nSelect + nRuns < MaxUserActions
    /\ nSelect' = nSelect + 1
    /\ originalFile' = file
    /\ error' = None
    /\ generatedImages' = <<>>
    /\ previewReads' = previewReads \cup {[sel |-> nSelect + 1, file |-> file]}
    /\ UNCHANGED <<originalImagePreview, isLoading, currentProcessingStep,
                   apiKey, runs, uncaught, nRuns>>

\* reader.onloadend of handleImageSelected: reader.result is the data URL, or
\* null when the read failed
PreviewLoadEnd(read, ok) ==
    /\ read \in previewReads
    /\ previewReads' = previewReads \ {read}
    /\ originalImagePreview' = IF ok THEN ReadAsDataURL(read.file) ELSE None
    /\ UNCHANGED <<originalFile, generatedImages, isLoading, error,
                   currentProcessingStep, apiKey, runs, uncaught, nSelect, nRuns>>

----------------------------------------------------------------------------
(* processImage, src/App.tsx:128-157 *)

\* The record of the id-th run, whose FileReader has just been started
NewRun(id, file) ==
    [id |-> id, file |-> file, pc |-> "reading", i |-> 0,
     base64Image |-> None, mimeType |-> None,
     currentBase64 |-> None, currentMimeType |-> None,
     greenScreenBaseForTpose |-> None,
     calls |-> <<>>, appended |-> <<>>, failure |-> None]

\* A run whose reader or pipeline has not finished.  The record of a finished
\* run is kept until the next run starts.
InFlight(run) == run.pc \in {"reading", "awaiting"}

\* The button that calls processImage is disabled while isLoading (App.tsx:192)
ButtonEnabled == ~isLoading

\* The guard sets the message but does not return: the handler goes on to
\* create a reader for the missing file
processImageNoReturn ==
    /\ originalFile = NoFile
    /\ nSelect + nRuns < MaxUserActions
    /\ nRuns' = nRuns + 1
    /\ error' = None
    /\ generatedImages' = <<>>
    /\ runs' = Append(SelectSeq(runs, InFlight), NewRun(nRuns + 1, originalFile))
    /\ isLoading' = FALSE
    /\ currentProcessingStep' = EmptyString
    /\ UNCHANGED <<originalFile, originalImagePreview, apiKey, previewReads,
                   uncaught, nSelect>>

\* if (!originalFile) { setError(...); return; }
processImageNoFile ==
    /\ originalFile = NoFile
    /\ error' = NoImageMessage
    /\ UNCHANGED <<originalFile, originalImagePreview, generatedImages, isLoading,
                   currentProcessingStep, apiKey, previewReads, runs, uncaught,
                   nSelect, nRuns>>

\* processImage without the setGeneratedImages([]) of line 136
processImageStartKeepsResults ==
    /\ originalFile # NoFile
    /\ nSelect + nRuns < MaxUserActions
    /\ nRuns' = nRuns + 1
    /\ error' = None
    /\ runs' = Append(SelectSeq(runs, InFlight), NewRun(nRuns + 1, originalFile))
    /\ isLoading' = FALSE
    /\ currentProcessingStep' = EmptyString
    /\ UNCHANGED <<originalFile, originalImagePreview, generatedImages, apiKey,
                   previewReads, uncaught, nSelect>>

\* The rest of processImage runs to its end in one event handler: the try block
\* only creates the reader and assigns its callbacks, nothing in it throws, and
\* the finally block runs before the reader has read anything.  React renders
\* the state after the handler: isLoading set true at line 134 and false at
\* line 154 is false.
processImageStart ==
    /\ originalFile # NoFile
    /\ nSelect + nRuns < MaxUserActions
    /\ nRuns' = nRuns + 1
    /\ error' = None
    /\ generatedImages' = <<>>
    /\ runs' = Append(SelectSeq(runs, InFlight), NewRun(nRuns + 1, originalFile))
    /\ isLoading' = FALSE
    /\ currentProcessingStep' = EmptyString
    /\ UNCHANGED <<originalFile, originalImagePreview, apiKey, previewReads,
                   uncaught, nSelect>>

processImage ==
    /\ ButtonEnabled
    /\ \/ processImageNoFile
       \/ processImageStart

\* reader.onloadend of processImage after a successful read (App.tsx:141-146):
\* takes the payload out of the data URL and enters imageTransformations up to
\* its first await, the request of step 0
RunLoadEnd(r) ==
    /\ r \in 1..Len(runs)
    /\ runs[r].pc = "reading"
    /\ LET base64Data == Base64Of(ReadAsDataURL(runs[r].file))
           mimeType == runs[r].file.type
           entered == [runs[r] EXCEPT !.base64Image = base64Data,
                                      !.mimeType = mimeType,
                                      !.currentBase64 = base64Data,
                                      !.currentMimeType = mimeType]
       IN  /\ currentProcessingStep' = StepLabel(0)
           /\ runs' = [runs EXCEPT ![r] = EditImage(entered, 0, base64Data, mimeType)]
           /\ uncaught' = uncaught \cup EditImageEscapes
    /\ UNCHANGED <<originalFile, originalImagePreview, generatedImages, isLoading,
                   error, apiKey, previewReads, nSelect, nRuns>>

\* The failed read is reported but the pipeline is entered all the same, with
\* a null payload
RunLoadErrorStillEdits(r) ==
    /\ r \in 1..Len(runs)
    /\ runs[r].pc = "reading"
    /\ currentProcessingStep' = StepLabel(0)
    /\ runs' = [runs EXCEPT ![r] =
           EditImage([runs[r] EXCEPT !.failure = ReadFailedMessage], 0, None,
                     runs[r].file.type)]
    /\ uncaught' = uncaught \cup {ReadFailedMessage} \cup EditImageEscapes
    /\ UNCHANGED <<originalFile, originalImagePreview, generatedImages, isLoading,
                   error, apiKey, previewReads, nSelect, nRuns>>

\* The read of processImage failed: reader.onerror throws inside an event
\* handler, and reader.onloadend finds reader.result null and throws at split
RunLoadError(r) ==
    /\ r \in 1..Len(runs)
    /\ runs[r].pc = "reading"
    /\ runs' = [runs EXCEPT ![r].pc = "failed", ![r].failure = ReadFailedMessage]
    /\ uncaught' = uncaught \cup {ReadFailedMessage, NullSplitMessage}
    /\ UNCHANGED <<originalFile, originalImagePreview, generatedImages, isLoading,
                   error, currentProcessingStep, apiKey, previewReads, nSelect, nRuns>>

\* The request of step i of run r returned payload: imageTransformations resumes
\* after its await, appends the entry, and goes on to the next await or returns
EditResolves(r, payload) ==
    /\ r \in 1..Len(runs)
    /\ runs[r].pc = "awaiting"
    /\ LET i == runs[r].i
           entry == StepEntry(r, i, payload)
           after == [AfterStep(runs[r], i, payload) EXCEPT !.appended = Append(@, entry)]
       IN  /\ generatedImages' = Append(generatedImages, entry)
           /\ IF LoopContinues(i + 1)
              THEN /\ currentProcessingStep' = StepLabel(i + 1)
                   /\ runs' = [runs EXCEPT ![r] =
                          EditImage(after, i + 1, InputImageForStep(after, i + 1),
                                    after.currentMimeType)]
                   /\ uncaught' = uncaught \cup EditImageEscapes
              ELSE /\ runs' = [runs EXCEPT ![r] = [after EXCEPT !.pc = "done"]]
                   /\ UNCHANGED <<currentProcessingStep, uncaught>>
    /\ UNCHANGED <<originalFile, originalImagePreview, isLoading, error, apiKey,
                   previewReads, nSelect, nRuns>>

\* The failure of a step also empties the result collection
EditRejectsClearsResults(r, cause) ==
    /\ r \in 1..Len(runs)
    /\ runs[r].pc = "awaiting"
    /\ runs' = [runs EXCEPT ![r].pc = "failed",
                            ![r].failure = EditFailedMessage(cause),
                            ![r].calls[Len(runs[r].calls)].result = Rejected]
    /\ uncaught' = uncaught \cup {EditFailedMessage(cause)}
    /\ generatedImages' = <<>>
    /\ UNCHANGED <<originalFile, originalImagePreview, isLoading,
                   error, currentProcessingStep, apiKey, previewReads, nSelect, nRuns>>

\* The failure of a step is swallowed and the loop goes on to the next step
EditRejectsContinues(r, cause) ==
    /\ r \in 1..Len(runs)
    /\ runs[r].pc = "awaiting"
    /\ LET i == runs[r].i
           logged == [runs[r] EXCEPT !.calls[Len(runs[r].calls)].result = Rejected]
       IN  IF LoopContinues(i + 1)
           THEN /\ currentProcessingStep' = StepLabel(i + 1)
                /\ runs' = [runs EXCEPT ![r] =
                       EditImage(logged, i + 1, InputImageForStep(logged, i + 1),
                                 logged.currentMimeType)]
           ELSE /\ runs' = [runs EXCEPT ![r] = [logged EXCEPT !.pc = "done"]]
                /\ UNCHANGED currentProcessingStep
    /\ UNCHANGED <<originalFile, originalImagePreview, generatedImages, isLoading,
                   error, apiKey, previewReads, uncaught, nSelect, nRuns>>

\* The request of step i of run r failed (generateContent rejected, or its
\* response held no image): editImage rethrows with its prefix, the error leaves
\* imageTransformations and rejects the promise of onloadend
EditRejects(r, cause) ==
    /\ r \in 1..Len(runs)
    /\ runs[r].pc = "awaiting"
    /\ runs' = [runs EXCEPT ![r].pc = "failed",
                            ![r].failure = EditFailedMessage(cause),
                            ![r].calls[Len(runs[r].calls)].result = Rejected]
    /\ uncaught' = uncaught \cup {EditFailedMessage(cause)}
    /\ UNCHANGED <<originalFile, originalImagePreview, generatedImages, isLoading,
                   error, currentProcessingStep, apiKey, previewReads, nSelect, nRuns>>

----------------------------------------------------------------------------

\* The user acts at any time, also while readers and pipelines are in flight.
\* The service answers with one payload here: the entries of overlapping runs
\* are told apart by their ids, and the answers are varied in SpecOneAtATime.
Next ==
    \/ \E file \in Files : handleImageSelected(file)
    \/ \E read \in previewReads, ok \in BOOLEAN : PreviewLoadEnd(read, ok)
    \/ processImage
    \/ \E r \in 1..Len(runs) : RunLoadEnd(r)
    \/ \E r \in 1..Len(runs) : RunLoadError(r)
    \/ \E r \in 1..Len(runs) : EditResolves(r, FirstOutput)
    \/ \E r \in 1..Len(runs), cause \in EditCauses : EditRejects(r, cause)

Spec == Init /\ [][Next]_vars

\* No run and no preview read is in flight
Idle == previewReads = {} /\ \A r \in 1..Len(runs) : ~InFlight(runs[r])

\* The user selects a file or starts a run only when nothing is in flight; the
\* service answers with any payload
NextOneAtATime ==
    \/ Idle /\ \E file \in Files : handleImageSelected(file)
    \/ \E read \in previewReads, ok \in BOOLEAN : PreviewLoadEnd(read, ok)
    \/ Idle /\ processImage
    \/ \E r \in 1..Len(runs) : RunLoadEnd(r)
    \/ \E r \in 1..Len(runs) : RunLoadError(r)
    \/ \E r \in 1..Len(runs), payload \in Outputs : EditResolves(r, payload)
    \/ \E r \in 1..Len(runs), cause \in EditCauses : EditRejects(r, cause)

SpecOneAtATime == Init /\ [][NextOneAtATime]_vars

\* No run is in flight
NoRunInFlight == \A r \in 1..Len(runs) : ~InFlight(runs[r])

\* The user starts a run only when no run is in flight, but selects files at
\* any time: the drop zone of ImageUploader calls onImageSelected whatever
\* isLoading is.  The service answers with one payload.
NextSelectAnyTime ==
    \/ \E file \in Files : handleImageSelected(file)
    \/ \E read \in previewReads, ok \in BOOLEAN : PreviewLoadEnd(read, ok)
    \/ NoRunInFlight /\ processImage
    \/ \E r \in 1..Len(runs) : RunLoadEnd(r)
    \/ \E r \in 1..Len(runs) : RunLoadError(r)
    \/ \E r \in 1..Len(runs) : EditResolves(r, FirstOutput)
    \/ \E r \in 1..Len(runs), cause \in EditCauses : EditRejects(r, cause)

SpecSelectAnyTime == Init /\ [][NextSelectAnyTime]_vars

----------------------------------------------------------------------------
(* Properties *)

Ended(run) == run.pc \in {"done", "failed"}

\* The run's request of step i was rejected (not a failed read, not a missing key)
EditFailed(run) ==
    /\ run.pc = "failed"
    /\ run.calls # <<>>
    /\ run.calls[Len(run.calls)].result = Rejected

\* t occurs in s
Contains(s, t) ==
    \E k \in 0..(Len(s) - Len(t)) : SubSeq(s, k + 1, k + Len(t)) = t

\* The entries e carry, in order, the names and descriptions of steps 0..Len(e)-1
InStepOrder(e) ==
    /\ Len(e) <= Len(steps)
    /\ \A k \in 1..Len(e) :
          /\ e[k].name = steps[k].name
          /\ e[k].description = steps[k].description

\* C1: a pipeline run in which no edit call failed has appended exactly 7
\* entries, in the order of the step table, each with the name and the
\* description of its own step; they are the result collection until the user
\* selects a file or starts a run again.
C1_SevenEntriesInStepOrder ==
    \A r \in 1..Len(runs) :
        runs[r].pc = "done" =>
            /\ Len(runs[r].appended) = 7
            /\ InStepOrder(runs[r].appended)
            /\ runs[r].appended[1].name = <<"Green Screen Background">>
            /\ runs[r].appended[7].name = <<"T-Pose Back View (Green Screen)">>
            /\ generatedImages \in {runs[r].appended, <<>>}

C1_Witness ==
    \E r \in 1..Len(runs) :
        /\ runs[r].pc = "done"
        /\ generatedImages = runs[r].appended
        /\ Len(generatedImages) = 7

C3_ViewsChainOnCursor ==
    \A r \in 1..Len(runs) :
        LET calls == runs[r].calls
        IN  /\ \A k \in 1..Len(calls) :
                  calls[k].step \in {1, 2, 3} =>
                      /\ calls[k - 1].step = calls[k].step - 1
                      /\ calls[k].data = calls[k - 1].result
            /\ (Len(calls) >= 5 \/ runs[r].pc = "done") =>
                  runs[r].currentBase64 = calls[4].result

C3_Witness ==
    \E r \in 1..Len(runs) :
        LET calls == runs[r].calls
        IN  /\ runs[r].pc = "done"
            /\ calls[2].result # calls[1].result
            /\ calls[3].result # calls[2].result
            /\ \A k \in 5..7 : calls[k].result # calls[4].result
            /\ runs[r].currentBase64 = calls[4].result

\* The state of a run whose edit call of step k failed: requests were made for
\* steps 0..k and no other, entries were appended for steps 0..k-1 and no other
AbortedAtFailingStep(run) ==
    LET k == run.i
    IN  /\ Len(run.calls) = k + 1
        /\ \A j \in 1..(k + 1) : run.calls[j].step = j - 1
        /\ Len(run.appended) = k
        /\ InStepOrder(run.appended)

\* C4: when the edit call of step k fails the run is over: the step in which it
\* fails leaves the result collection as it is, with the k entries of steps
\* 0..k-1; the run has made the requests of steps 0..k only and appended the
\* entries of steps 0..k-1 only, and it makes no request and appends no entry
\* afterwards.
C4_FailureAbortsRun ==
    [][\A r \in 1..Len(runs), q \in 1..Len(runs') :
          runs'[q].id = runs[r].id =>
              /\ (runs[r].pc = "awaiting" /\ runs'[q].pc = "failed") =>
                    /\ generatedImages' = generatedImages
                    /\ generatedImages' = runs'[q].appended
                    /\ AbortedAtFailingStep(runs'[q])
              /\ EditFailed(runs[r]) =>
                    /\ runs'[q] = runs[r]
                    /\ AbortedAtFailingStep(runs'[q])
                    /\ generatedImages' \in {generatedImages, <<>>}]_vars

C4_Witness ==
    \E r \in 1..Len(runs) :
        /\ EditFailed(runs[r])
        /\ runs[r].i = 3
        /\ Len(generatedImages) = 3
        /\ generatedImages = runs[r].appended

\* C5: once a run whose edit call failed has ended, isLoading is false and the
\* error message is set and holds the failure of the step and its cause.
C5_StepFailureSetsError ==
    \A r \in 1..Len(runs) :
        EditFailed(runs[r]) =>
            /\ isLoading = FALSE
            /\ error # None
            /\ Contains(error, runs[r].failure)

\* C6: no failure escapes: nothing is thrown that no handler catches, and every
\* failed run has left an error message.
C6_NoFailureEscapes ==
    /\ uncaught = {}
    /\ \A r \in 1..Len(runs) : runs[r].pc = "failed" => error # None

\* C7: at most one pipeline run is in flight at any time.
C7_AtMostOneRunInFlight ==
    Cardinality({r \in 1..Len(runs) : InFlight(runs[r])}) <= 1

\* C8: the names of the entries of the result collection are a prefix of the
\* step table: none twice, none out of order, at most 7.
C8_ResultsArePrefixOfStepTable ==
    /\ Len(generatedImages) <= 7
    /\ \A k \in 1..Len(generatedImages) : generatedImages[k].name = steps[k].name

\* C9: whenever every run started so far has ended, isLoading is false and the
\* current-step label is empty.
C9_CleanupWhenRunEnded ==
    (runs # <<>> /\ \A r \in 1..Len(runs) : Ended(runs[r])) =>
        /\ isLoading = FALSE
        /\ currentProcessingStep = EmptyString

\* C10: processImage called while no image is selected sets the 'no image'
\* message and nothing else: no reader and no run is created, so no edit call
\* is made, isLoading is not set and the result collection is unchanged.
C10_RunWithoutImage ==
    [][(originalFile = NoFile /\ processImage) =>
          /\ error' = NoImageMessage
          /\ runs' = runs /\ runs' = <<>>
          /\ nRuns' = nRuns
          /\ isLoading' = FALSE
          /\ generatedImages' = generatedImages
          /\ currentProcessingStep' = currentProcessingStep]_vars

C10_Witness ==
    /\ originalFile = NoFile
    /\ error = NoImageMessage
    /\ runs = <<>>
    /\ generatedImages = <<>>
    /\ isLoading = FALSE

\* C11: a call of handleImageSelected, in whatever state, leaves the result
\* collection empty and the error message null, makes the file the selected
\* one (the one its preview reader reads) and touches no run: no edit request
\* is issued in the step.
C11_SelectClearsAtOnce ==
    [][nSelect' # nSelect =>
          /\ generatedImages' = <<>>
          /\ error' = None
          /\ originalFile' \in Files
          /\ \E read \in previewReads' \ previewReads :
                read.sel = nSelect' /\ read.file = originalFile'
          /\ runs' = runs]_vars

\* A file was selected while a run that had appended entries was in flight
C11_Witness ==
    /\ nSelect = 2
    /\ generatedImages = <<>>
    /\ error = None
    /\ originalFile \in Files
    /\ \E r \in 1..Len(runs) : InFlight(runs[r]) /\ Len(runs[r].appended) >= 1

\* C12: when runs follow one another, the result collection holds entries of
\* the latest run only, each at most once and at most 7 of them, and once that
\* run is done the collection is its 7 entries in step order.
C12_SecondRunStartsAfresh ==
    /\ Len(generatedImages) <= 7
    /\ \A k \in 1..Len(generatedImages) :
          /\ generatedImages[k].id[1] = nRuns
          /\ \A j \in 1..Len(generatedImages) :
                generatedImages[j].id = generatedImages[k].id => j = k
    /\ \A r \in 1..Len(runs) :
          (runs[r].id = nRuns /\ runs[r].pc = "done" /\ generatedImages # <<>>) =>
              /\ Len(generatedImages) = 7
              /\ InStepOrder(generatedImages)

\* A second run is done after a first one that did not fail
C12_Witness ==
    /\ nRuns = 2
    /\ uncaught = {}
    /\ Len(generatedImages) = 7
    /\ \A k \in 1..7 : generatedImages[k].id = <<2, k - 1>>
    /\ \E r \in 1..Len(runs) : runs[r].id = 2 /\ runs[r].pc = "done"

\* The MIME type a data URL names
MimeTypeOf(src) == SubSeq(src, 2, Len(src) - 3)

\* C13: every entry of the result collection, the entry of step 0 included,
\* has a src built with image/png.
C13_EverySrcIsPng ==
    \A k \in 1..Len(generatedImages) :
        MimeTypeOf(generatedImages[k].src) = <<"image/png">>

\* C14: the request of step 0 carries the payload and the MIME type of the
\* selected file; the request of every step 1..6 carries image/png.
C14_RequestMimeTypes ==
    \A r \in 1..Len(runs) :
        \A k \in 1..Len(runs[r].calls) :
            LET call == runs[r].calls[k]
            IN  /\ call.step = 0 =>
                      /\ call.data = runs[r].file.data
                      /\ call.mimeType = runs[r].file.type
                /\ call.step \in 1..6 => call.mimeType = <<"image/png">>

\* A run on the jpeg file has made all 7 requests
C14_Witness ==
    \E r \in 1..Len(runs) :
        /\ runs[r].file.type = <<"image/jpeg">>
        /\ Len(runs[r].calls) = 7
        /\ runs[r].calls[1].mimeType = <<"image/jpeg">>
        /\ runs[r].calls[1].data = <<"JPEGDATA">>
        /\ runs[r].calls[7].mimeType = <<"image/png">>

\* C15: without the API key no run gets past the call of step 0: no request
\* is sent to the service and no entry is appended.
C15_NoKeyNoRequest ==
    ~apiKey =>
        /\ generatedImages = <<>>
        /\ \A r \in 1..Len(runs) :
              /\ runs[r].calls = <<>>
              /\ runs[r].appended = <<>>
              /\ runs[r].pc \in {"reading", "failed"}
              /\ runs[r].i = 0

C15_Witness ==
    /\ ~apiKey
    /\ \E r \in 1..Len(runs) :
          /\ runs[r].pc = "failed"
          /\ runs[r].failure = ApiKeyMessage
          /\ runs[r].calls = <<>>
    /\ generatedImages = <<>>

\* C16: the requests of a run are those of steps 0, 1, 2, ... in this order;
\* every request but the last has returned a payload and its entry has been
\* appended before the next one was made, so only the last can be outstanding.
C16_OneRequestAtATime ==
    \A r \in 1..Len(runs) :
        LET calls == runs[r].calls
            n == Len(calls)
        IN  /\ \A k \in 1..n : calls[k].step = k - 1
            /\ \A k \in 1..(n - 1) :
                  /\ calls[k].result \in Outputs
                  /\ Len(runs[r].appended) >= k
                  /\ runs[r].appended[k].id = <<runs[r].id, k - 1>>
            /\ Cardinality({k \in 1..n : calls[k].result = Pending}) <= 1
            /\ n - 1 <= Len(runs[r].appended) /\ Len(runs[r].appended) <= n

\* The request of step 6 is outstanding, the six before it have returned
C16_Witness ==
    \E r \in 1..Len(runs) :
        /\ Len(runs[r].calls) = 7
        /\ runs[r].calls[7].result = Pending
        /\ Len(runs[r].appended) = 6

\* C17: isLoading is true whenever a run is in flight (its reader is reading
\* or one of its edit requests is outstanding).
C17_LoadingWhileRunning ==
    (\E r \in 1..Len(runs) : InFlight(runs[r])) => isLoading = TRUE

\* C18: a run whose file could not be read is over before any step: it has
\* made no edit request and appended no entry, and the collection is empty.
C18_ReadFailureAbortsBeforeSteps ==
    \A r \in 1..Len(runs) :
        runs[r].failure = ReadFailedMessage =>
            /\ runs[r].pc = "failed"
            /\ runs[r].calls = <<>>
            /\ runs[r].appended = <<>>
            /\ generatedImages = <<>>

C18_Witness ==
    \E r \in 1..Len(runs) :
        /\ runs[r].pc = "failed"
        /\ runs[r].failure = ReadFailedMessage
        /\ runs[r].calls = <<>>
        /\ ReadFailedMessage \in uncaught

\* C19: every entry of the result collection comes from a run on the file
\* that is selected now.
C19_NoEntryOfReplacedImage ==
    \A k \in 1..Len(generatedImages) :
        \A r \in 1..Len(runs) :
            runs[r].id = generatedImages[k].id[1] => runs[r].file = originalFile

\* C20: once no preview read is pending, a preview that is shown is the one of
\* the file selected last.
C20_PreviewIsOfLastSelection ==
    (nSelect > 0 /\ previewReads = {} /\ originalImagePreview # None) =>
        originalImagePreview = ReadAsDataURL(originalFile)

====
